---- MODULE Spec2Model ----
(***************************************************************************)
(* Model of the session and order-execution core of the MT5 trading        *)
(* service (src/mt5_service/main.py): class MT5Service, its connection     *)
(* registry, and the MetaTrader5 terminal it drives.                       *)
(*                                                                         *)
(* Python values are modelled as follows.                                  *)
(*   None / a value      <<>> / <<v>>   (an optional value)                *)
(*   dict                a record with exactly the dict's keys             *)
(*   tuple / list        a sequence                                        *)
(*   f-string            string concatenation with Str of the numbers      *)
(* Every handler is one action: it draws the terminal's answers, runs the  *)
(* handler's code to its return, and leaves                                *)
(*   req     the request it served,                                        *)
(*   result  the envelope it returned,                                     *)
(*   calls   the terminal calls it made, in order, each with the account   *)
(*           the terminal was logged in as, its argument and its answer.   *)
(* Two login calls served by two threads are modelled step by step, one    *)
(* step per terminal call (threads), and a terminal function may raise an  *)
(* exception instead of answering (raising).                               *)
(***************************************************************************)
EXTENDS Integers, Sequences, FiniteSets, TLC

\* the keys of the dicts and the attributes of the terminal's objects: every
\* record of this module lists its keys in this order
Keys ==
  [ account |-> 0, account_info |-> 0, acct |-> 0, action |-> 0, arg |-> 0,
    ask |-> 0, balance |-> 0, bid |-> 0, body |-> 0, comment |-> 0,
    commission |-> 0, connected_at |-> 0, connection_id |-> 0,
    currency |-> 0, data |-> 0, date_from |-> 0, date_to |-> 0, deal |-> 0,
    deal_id |-> 0, deals |-> 0, deviation |-> 0, equity |-> 0, error |-> 0,
    exc |-> 0, fn |-> 0, free_margin |-> 0, group |-> 0, leverage |-> 0,
    login |-> 0, magic |-> 0, margin |-> 0, margin_free |-> 0,
    margin_level |-> 0, name |-> 0, op |-> 0, order |-> 0, order_id |-> 0,
    order_type |-> 0, password |-> 0, pc |-> 0, position |-> 0,
    positions |-> 0, price |-> 0, price_current |-> 0, price_open |-> 0,
    profit |-> 0, quoted |-> 0, result |-> 0, ret |-> 0, retcode |-> 0,
    server |-> 0, sl |-> 0, status |-> 0, success |-> 0, swap |-> 0,
    symbol |-> 0, text |-> 0, ticket |-> 0, time |-> 0, time_update |-> 0,
    tp |-> 0, type |-> 0, type_filling |-> 0, type_time |-> 0, visible |-> 0,
    volume |-> 0 ]

VARIABLES
  connections,  \* self.connections, the registry: connection id -> entry
  bound,        \* the account the terminal is logged in as, None when shut down
  now,          \* the clock
  req,          \* the last request served
  result,       \* what it returned
  calls,        \* the terminal calls it made
  threads,      \* the requests being served step by step, one per thread
  raising       \* the terminal functions that raise an exception when called

vars == <<connections, bound, now, req, result, calls, threads, raising>>

-----------------------------------------------------------------------------
(* Bounds of the model *)

\* the clock (datetime.now()) runs from 0 to MaxTime
MaxTime == 1

\* the terminal answers a history query with at most MaxDeals deals
MaxDeals == 3

\* the terminal answers a position query with at most MaxPositions positions
MaxPositions == 1

-----------------------------------------------------------------------------
(* Python helpers *)

None == <<>>

Some(v) == <<v>>

Digit == <<"0", "1", "2", "3", "4", "5", "6", "7", "8", "9">>

RECURSIVE NatStr(_)
NatStr(n) == IF n < 10 THEN Digit[n + 1] ELSE NatStr(n \div 10) \o Digit[(n % 10) + 1]

\* str(n) / f"{n}" of an int
Str(n) == IF n < 0 THEN "-" \o NatStr(0 - n) ELSE NatStr(n)

\* datetime.now().isoformat(): the clock value as text
IsoFormat(t) == "T" \o NatStr(t)

-----------------------------------------------------------------------------
(* The terminal (module MetaTrader5) *)

Logins == {1, 2}

Servers == {"Demo"}

Passwords == {"x"}

Account(login, server) == [login |-> login, server |-> server]

Accounts == {Account(l, s) : l \in Logins, s \in Servers}

\* what mt5.account_info() may report for an account: the balance identifies
\* the account, and two reports per account differ
TerminalAccountInfo(acct, v) ==
  [ balance      |-> 1000 * acct.login + v,
    currency     |-> "USD",
    equity       |-> 1000 * acct.login + v + 5,
    leverage     |-> 100,
    login        |-> acct.login,
    margin       |-> 10,
    margin_free  |-> 1000 * acct.login + v - 10,
    margin_level |-> 150,
    server       |-> acct.server ]

\* mt5.account_info(): None without a connection, else None or the fields of
\* the account the terminal is logged in as
AccountInfoAnswers(b) ==
  IF b = None THEN {None}
  ELSE {None} \cup {Some(TerminalAccountInfo(b[1], v)) : v \in {0, 500}}

\* mt5.last_error() after a failed initialize() / login()
InitErrors == {-10003}

LoginErrors == {-6, -2}

\* f"{mt5.last_error()}" carries the terminal's code
ErrStr(code) == "(" \o Str(code) \o ")"

\* mt5 constants the service uses
ORDER_TYPE_BUY == 0

ORDER_TYPE_SELL == 1

DEAL_TYPE_BUY == 0

TRADE_ACTION_DEAL == 1

ORDER_TIME_GTC == 0

ORDER_FILLING_IOC == 1

TRADE_RETCODE_DONE == 10009

Symbols == {"EURUSD"}

\* mt5.symbol_info(symbol): None without a connection or for an unknown symbol
SymbolInfoAnswers(b, symbol) ==
  IF b = None THEN {None}
  ELSE {None} \cup {Some([name |-> symbol, visible |-> v]) : v \in BOOLEAN}

\* the quotes the terminal may hold: bid and ask differ
Ticks == {[ask |-> 102, bid |-> 100]}

\* mt5.symbol_info_tick(symbol)
TickAnswers(b, symbol) == IF b = None THEN {None} ELSE {None} \cup {Some(t) : t \in Ticks}

\* the result codes the terminal answers an order with: done, and a refusal
Retcodes == {TRADE_RETCODE_DONE, 10006}

TerminalComment(retcode) ==
  IF retcode = TRADE_RETCODE_DONE THEN "Request executed" ELSE "Request rejected"

OrderSendResult(retcode, request) ==
  [ comment |-> TerminalComment(retcode),
    deal    |-> 88,
    order   |-> 77,
    price   |-> request.price,
    retcode |-> retcode,
    volume  |-> request.volume ]

\* mt5.order_send(request): None, or a result with a result code
OrderSendAnswers(b, request) ==
  IF b = None THEN {None}
  ELSE {None} \cup {Some(OrderSendResult(rc, request)) : rc \in Retcodes}

\* the execution tags orders, positions and deals may carry: the service's
\* and a foreign one
Magics == {2025, 7}

\* an open position of the terminal
TerminalPosition(ticket, type, magic) ==
  [ comment       |-> "SIGNALIST Bot",
    commission    |-> 1,
    magic         |-> magic,
    price_current |-> 104,
    price_open    |-> 101,
    profit        |-> 9,
    sl            |-> 95,
    swap          |-> 0,
    symbol        |-> "EURUSD",
    ticket        |-> ticket,
    time          |-> 5,
    time_update   |-> 6,
    tp            |-> 120,
    type          |-> type,
    volume        |-> 3 ]

Tickets == {41}

\* mt5.positions_get(ticket=t): None, an empty tuple, or the one position
PositionByTicketAnswers(b, ticket) ==
  IF b = None THEN {None}
  ELSE {None, Some(<<>>)}
       \cup {Some(<<TerminalPosition(ticket, ty, m)>>) :
               ty \in {ORDER_TYPE_BUY, ORDER_TYPE_SELL}, m \in Magics}

\* the tuples of at most n open positions, tickets 41, 42, ...
RECURSIVE PositionTuples(_)
PositionTuples(n) ==
  IF n = 0 THEN {<<>>}
  ELSE LET shorter == PositionTuples(n - 1) IN
       shorter \cup
       {Append(ps, TerminalPosition(40 + n, ty, m)) :
          ps \in {q \in shorter : Len(q) = n - 1},
          ty \in {ORDER_TYPE_BUY, ORDER_TYPE_SELL}, m \in Magics}

\* mt5.positions_get() / mt5.positions_get(symbol=s), the account holding
\* open_positions: None without a connection
PositionsAnswers(b, open_positions) ==
  IF b = None THEN {None} ELSE {None, Some(open_positions)}

\* a deal of the terminal's history
TerminalDeal(ticket, type, magic) ==
  [ comment    |-> "SIGNALIST Bot",
    commission |-> 1,
    magic      |-> magic,
    order      |-> ticket + 100,
    price      |-> 101,
    profit     |-> 9,
    swap       |-> 0,
    symbol     |-> "EURUSD",
    ticket     |-> ticket,
    time       |-> 5,
    type       |-> type,
    volume     |-> 3 ]

\* the tuples of at most n deals, tickets 1, 2, ...: sells and buys in turn,
\* each with the service's tag or a foreign one
RECURSIVE DealTuples(_)
DealTuples(n) ==
  IF n = 0 THEN {<<>>}
  ELSE LET shorter == DealTuples(n - 1) IN
       shorter \cup
       {Append(ds, TerminalDeal(n, n % 2, m)) :
          ds \in {q \in shorter : Len(q) = n - 1}, m \in Magics}

\* mt5.history_deals_get(date_from, date_to[, group=...]), the account's
\* history in the window being history: None without a connection
HistoryDealsAnswers(b, history) ==
  IF b = None THEN {None} ELSE {None, Some(history)}

\* one terminal call: the function, the account the terminal was logged in as
\* when it was called, the argument and the answer
Call(fn, b, arg, ret) == [acct |-> b, arg |-> arg, fn |-> fn, ret |-> ret]

\* the functions of the terminal the service calls
TerminalFunctions ==
  {"initialize", "login", "last_error", "shutdown", "account_info", "symbol_info",
   "symbol_select", "symbol_info_tick", "order_send", "positions_get",
   "history_deals_get"}

\* str(e) of the exception a terminal function raises
TerminalError(fn) == "mt5." \o fn \o ": no IPC connection"

\* one terminal call that raised instead of answering
Threw(fn, b, arg) == [acct |-> b, arg |-> arg, exc |-> TerminalError(fn), fn |-> fn]

\* the call of fn raises
Raises(fn) == fn \in raising

-----------------------------------------------------------------------------
(* MT5Service *)

\* f"{login}_{server}", text being f"{login}"
SessionId(text, server) == text \o "_" \o server

\* f"{login}_{server}" of an int login
ConnectionId(login, server) == SessionId(Str(login), server)

AccountDict_MarginForFree(ai) ==
  [ balance      |-> ai.balance,
    currency     |-> ai.currency,
    equity       |-> ai.equity,
    free_margin  |-> ai.margin,
    leverage     |-> ai.leverage,
    margin       |-> ai.margin,
    margin_level |-> ai.margin_level ]

\* the account dict built from account_info (lines 75-83, 89-97, 130-138)
AccountDict(ai) ==
  [ balance      |-> ai.balance,
    currency     |-> ai.currency,
    equity       |-> ai.equity,
    free_margin  |-> ai.margin_free,
    leverage     |-> ai.leverage,
    margin       |-> ai.margin,
    margin_level |-> ai.margin_level ]

Register_Only(conns, id, entry) == [k \in {id} |-> entry]

\* self.connections[connection_id] = {...}
Register(conns, id, entry) ==
  [k \in DOMAIN conns \cup {id} |-> IF k = id THEN entry ELSE conns[k]]

Remove_Nothing(conns, id) == conns

\* del self.connections[connection_id]
Remove(conns, id) == [k \in DOMAIN conns \ {id} |-> conns[k]]

Registered_Always(conns, id) == TRUE

\* the session check: `connection_id in self.connections`
Registered(conns, id) == id \in DOMAIN conns

\* a handler returns: the request, the envelope, the terminal calls made, and
\* the registry and terminal binding it leaves
Return(rq, res, cs, conns, b) ==
  /\ req' = rq
  /\ result' = res
  /\ calls' = cs
  /\ connections' = conns
  /\ bound' = b
  /\ UNCHANGED <<now, threads, raising>>

Fail(msg) == [error |-> msg, success |-> FALSE]

Except_Propagates(msg) == [exc |-> msg]

\* `except Exception as e: return {"success": False, "error": str(e)}`
Except(msg) == [error |-> msg, success |-> FALSE]

\* what a handler hands back: the envelope, or the route's HTTP response
Respond(http, res) == IF http THEN [body |-> res, status |-> 200] ELSE res

\* a terminal call raised after the calls cs: the `except Exception as e` of
\* the method returns the failure envelope of str(e)
Raise(rq, http, cs, fn, arg, b) ==
  Return(rq, Respond(http, Except(TerminalError(fn))), cs \o <<Threw(fn, b, arg)>>,
         connections, b)

\* lines 71-84: the registry entry of a session
SessionEntry(login, server, account_info) ==
  [ account_info |-> AccountDict(account_info),
    connected_at |-> IsoFormat(now),
    login        |-> login,
    server       |-> server ]

\* lines 86-98: the envelope of a successful login
LoginSuccess(connection_id, account_info) ==
  [ account       |-> AccountDict(account_info),
    connection_id |-> connection_id,
    success       |-> TRUE ]

\* MT5Service.login, serving request rq: login is the value passed, number is
\* int(login), None when int() raises ValueError, and text is f"{login}"
service_login(rq, http, login, number, text, password, server) ==
  IF Raises("initialize") THEN Raise(rq, http, <<>>, "initialize", None, bound)
  ELSE
  \E init_ok \in BOOLEAN :
    LET c1 == <<Call("initialize", bound, None, init_ok)>> IN
    IF ~init_ok
    THEN IF Raises("last_error") THEN Raise(rq, http, c1, "last_error", None, bound)
         ELSE
         \E e \in InitErrors :
           Return(rq, Respond(http, Fail("MT5 initialization failed: " \o ErrStr(e))),
                  c1 \o <<Call("last_error", bound, None, e)>>, connections, bound)
    ELSE IF number = None
    THEN Return(rq,
                Respond(http, Except("invalid literal for int() with base 10: '"
                                     \o text \o "'")),
                c1, connections, bound)
    ELSE
    LET acct == Account(number[1], server) IN
    IF Raises("login") THEN Raise(rq, http, c1, "login", acct, bound)
    ELSE
    \E authorized \in BOOLEAN :
      LET c2 == c1 \o <<Call("login", bound, acct, authorized)>> IN
      IF ~authorized
      THEN IF Raises("last_error") THEN Raise(rq, http, c2, "last_error", None, bound)
           ELSE
           \E e \in LoginErrors :
             LET c3 == c2 \o <<Call("last_error", bound, None, e)>> IN
             IF Raises("shutdown") THEN Raise(rq, http, c3, "shutdown", None, bound)
             ELSE Return(rq, Respond(http, Fail("Login failed: " \o ErrStr(e))),
                         c3 \o <<Call("shutdown", bound, None, None)>>,
                         connections, None)
      ELSE IF Raises("account_info") THEN Raise(rq, http, c2, "account_info", None, Some(acct))
      ELSE
      \E account_info \in AccountInfoAnswers(Some(acct)) :
        LET c3 == c2 \o <<Call("account_info", Some(acct), None, account_info)>> IN
        IF account_info = None
        THEN Return(rq, Respond(http, Fail("Failed to get account info")), c3, connections,
                    Some(acct))
        ELSE
        LET connection_id == SessionId(text, server) IN
        Return(rq, Respond(http, LoginSuccess(connection_id, account_info[1])), c3,
               Register(connections, connection_id,
                        SessionEntry(login, server, account_info[1])),
               Some(acct))

\* a direct call of MT5Service.login with an int login
Login(login, password, server) ==
  service_login([login |-> login, op |-> "login", password |-> password, server |-> server],
                FALSE, login, Some(login), Str(login), password, server)

\* MT5Service.disconnect
Disconnect(connection_id) ==
  LET rq == [connection_id |-> connection_id, op |-> "disconnect"] IN
  IF Registered(connections, connection_id)
  THEN IF Raises("shutdown") THEN Raise(rq, FALSE, <<>>, "shutdown", None, bound)
       ELSE Return(rq, [success |-> TRUE], <<Call("shutdown", bound, None, None)>>,
                   Remove(connections, connection_id), None)
  ELSE Return(rq, Fail("Connection not found"), <<>>, connections, bound)

\* MT5Service.get_account_info
GetAccountInfo(connection_id) ==
  LET rq == [connection_id |-> connection_id, op |-> "get_account_info"] IN
  IF ~Registered(connections, connection_id)
  THEN Return(rq, Fail("Not connected"), <<>>, connections, bound)
  ELSE IF Raises("account_info") THEN Raise(rq, FALSE, <<>>, "account_info", None, bound)
  ELSE
  \E account_info \in AccountInfoAnswers(bound) :
    LET c1 == <<Call("account_info", bound, None, account_info)>> IN
    IF account_info = None
    THEN Return(rq, Fail("Failed to get account info"), c1, connections, bound)
    ELSE Return(rq, [account |-> AccountDict(account_info[1]), success |-> TRUE],
                c1, connections, bound)

\* order_type.upper()
Upper(s) ==
  CASE s = "buy" -> "BUY"
    [] s = "sell" -> "SELL"
    [] s = "hold" -> "HOLD"
    [] OTHER -> s

\* lines 176-181: the terminal order type of the side
OrderTypeMt5(order_type) ==
  IF Upper(order_type) = "BUY" THEN ORDER_TYPE_BUY ELSE ORDER_TYPE_SELL

PriceExec_Swapped(order_type, tick, price) ==
  IF Upper(order_type) = "BUY"
  THEN (IF price = None THEN tick.bid ELSE price[1])
  ELSE (IF price = None THEN tick.ask ELSE price[1])

\* lines 176-181: the price of the order, the tick's when none is given
PriceExec(order_type, tick, price) ==
  IF Upper(order_type) = "BUY"
  THEN (IF price = None THEN tick.ask ELSE price[1])
  ELSE (IF price = None THEN tick.bid ELSE price[1])

\* lines 186-197: request_dict
BaseRequest(symbol, order_type, volume, tick, price, magic, comment) ==
  [ action       |-> TRADE_ACTION_DEAL,
    comment      |-> comment,
    deviation    |-> 20,
    magic        |-> magic,
    price        |-> PriceExec(order_type, tick, price),
    symbol       |-> symbol,
    type         |-> OrderTypeMt5(order_type),
    type_filling |-> ORDER_FILLING_IOC,
    type_time    |-> ORDER_TIME_GTC,
    volume       |-> volume ]

\* lines 199-203: request_dict["sl"] = sl, request_dict["tp"] = tp, when given
OrderRequest(symbol, order_type, volume, tick, price, sl, tp, magic, comment) ==
  LET r == BaseRequest(symbol, order_type, volume, tick, price, magic, comment) IN
  CASE sl = None /\ tp = None -> r
    [] sl # None /\ tp = None ->
         [ action       |-> r.action,
           comment      |-> r.comment,
           deviation    |-> r.deviation,
           magic        |-> r.magic,
           price        |-> r.price,
           sl           |-> sl[1],
           symbol       |-> r.symbol,
           type         |-> r.type,
           type_filling |-> r.type_filling,
           type_time    |-> r.type_time,
           volume       |-> r.volume ]
    [] sl = None /\ tp # None ->
         [ action       |-> r.action,
           comment      |-> r.comment,
           deviation    |-> r.deviation,
           magic        |-> r.magic,
           price        |-> r.price,
           symbol       |-> r.symbol,
           tp           |-> tp[1],
           type         |-> r.type,
           type_filling |-> r.type_filling,
           type_time    |-> r.type_time,
           volume       |-> r.volume ]
    [] OTHER ->
         [ action       |-> r.action,
           comment      |-> r.comment,
           deviation    |-> r.deviation,
           magic        |-> r.magic,
           price        |-> r.price,
           sl           |-> sl[1],
           symbol       |-> r.symbol,
           tp           |-> tp[1],
           type         |-> r.type,
           type_filling |-> r.type_filling,
           type_time    |-> r.type_time,
           volume       |-> r.volume ]

PlaceOutcome_NoRetcodeCheck(res) ==
  IF res = None THEN Fail("Order send failed")
  ELSE [ order   |-> [ comment  |-> res[1].comment,
  deal_id  |-> res[1].deal,
  order_id |-> res[1].order,
  price    |-> res[1].price,
  retcode  |-> res[1].retcode,
  volume   |-> res[1].volume ],
         success |-> TRUE ]

\* lines 208-227: the envelope for the terminal's answer to an order
PlaceOutcome(res) ==
  IF res = None THEN Fail("Order send failed")
  ELSE IF res[1].retcode # TRADE_RETCODE_DONE
  THEN Fail("Order failed: " \o Str(res[1].retcode) \o " - " \o res[1].comment)
  ELSE [ order   |-> [ comment  |-> res[1].comment,
  deal_id  |-> res[1].deal,
  order_id |-> res[1].order,
  price    |-> res[1].price,
  retcode  |-> res[1].retcode,
  volume   |-> res[1].volume ],
         success |-> TRUE ]

NeedsSelect_Always(symbol_info) == TRUE

\* line 166: `if not symbol_info.visible`
NeedsSelect(symbol_info) == ~symbol_info.visible

ValidSide_Any(order_type) == TRUE

\* lines 176-183: the side is BUY or SELL, in any case of letters
ValidSide(order_type) == Upper(order_type) \in {"BUY", "SELL"}

OrderSend_Retried(b, request, res) ==
  IF res # None /\ res[1].retcode = TRADE_RETCODE_DONE
  THEN <<Call("order_send", b, request, res)>>
  ELSE <<Call("order_send", b, request, res), Call("order_send", b, request, res)>>

\* lines 206, 360: result = mt5.order_send(request_dict), called once
OrderSend(b, request, res) == <<Call("order_send", b, request, res)>>

\* MT5Service.place_order, serving request rq
place_order(rq, http, connection_id, symbol, order_type, volume, price, sl, tp, magic, comment) ==
  IF ~Registered(connections, connection_id)
  THEN Return(rq, Respond(http, Fail("Not connected")), <<>>, connections, bound)
  ELSE IF Raises("symbol_info") THEN Raise(rq, http, <<>>, "symbol_info", symbol, bound)
  ELSE
  \E symbol_info \in SymbolInfoAnswers(bound, symbol) :
    LET c1 == <<Call("symbol_info", bound, symbol, symbol_info)>> IN
    IF symbol_info = None
    THEN Return(rq, Respond(http, Fail("Symbol " \o symbol \o " not found")),
                c1, connections, bound)
    ELSE IF NeedsSelect(symbol_info[1]) /\ Raises("symbol_select")
    THEN Raise(rq, http, c1, "symbol_select", symbol, bound)
    ELSE
    \E selected \in (IF NeedsSelect(symbol_info[1]) THEN BOOLEAN ELSE {TRUE}) :
      LET c2 == IF NeedsSelect(symbol_info[1])
                THEN c1 \o <<Call("symbol_select", bound, symbol, selected)>>
                ELSE c1
      IN
      IF NeedsSelect(symbol_info[1]) /\ ~selected
      THEN Return(rq, Respond(http, Fail("Failed to select symbol " \o symbol)),
                  c2, connections, bound)
      ELSE IF Raises("symbol_info_tick")
      THEN Raise(rq, http, c2, "symbol_info_tick", symbol, bound)
      ELSE
      \E tick \in TickAnswers(bound, symbol) :
        LET c3 == c2 \o <<Call("symbol_info_tick", bound, symbol, tick)>> IN
        IF tick = None
        THEN Return(rq, Respond(http, Fail("Failed to get tick for " \o symbol)),
                    c3, connections, bound)
        ELSE IF ~ValidSide(order_type)
        THEN Return(rq, Respond(http, Fail("Invalid order type. Use BUY or SELL")),
                    c3, connections, bound)
        ELSE
        LET request_dict ==
              OrderRequest(symbol, order_type, volume, tick[1], price, sl, tp, magic, comment)
        IN
        IF Raises("order_send") THEN Raise(rq, http, c3, "order_send", request_dict, bound)
        ELSE
        \E res \in OrderSendAnswers(bound, request_dict) :
          Return(rq, Respond(http, PlaceOutcome(res)),
                 c3 \o OrderSend(bound, request_dict, res),
                 connections, bound)

\* a direct call of MT5Service.place_order
PlaceOrder(connection_id, symbol, order_type, volume, price, sl, tp, magic, comment) ==
  place_order([ comment       |-> comment,
                connection_id |-> connection_id,
                magic         |-> magic,
                op            |-> "place_order",
                order_type    |-> order_type,
                price         |-> price,
                sl            |-> sl,
                symbol        |-> symbol,
                tp            |-> tp,
                volume        |-> volume ],
              FALSE, connection_id, symbol, order_type, volume, price, sl, tp, magic, comment)

\* `if symbol:`, `all([...])` on a str or None: None and "" are false
TruthyStr(opt) == opt # None /\ opt[1] # ""

\* `all([...])` on a JSON number or a missing field: None and 0 are false
TruthyNum(opt) == opt # None /\ opt[1] # 0

\* lines 444-514: the routes /trade/buy and /trade/sell, data the JSON body
trade(op, order_type, data) ==
  LET rq == [data |-> data, op |-> op] IN
  IF ~(TruthyStr(data.connection_id) /\ TruthyStr(data.symbol) /\ TruthyNum(data.volume))
  THEN Return(rq,
              [ body   |-> Fail("Missing required fields: connection_id, symbol, volume"),
                status |-> 400 ],
              <<>>, connections, bound)
  ELSE place_order(rq, TRUE, data.connection_id[1], data.symbol[1], order_type,
                   data.volume[1],
                   IF TruthyNum(data.price) THEN data.price ELSE None,
                   IF TruthyNum(data.sl) THEN data.sl ELSE None,
                   IF TruthyNum(data.tp) THEN data.tp ELSE None,
                   IF data.magic = None THEN 2025 ELSE data.magic[1],
                   IF data.comment = None THEN "SIGNALIST Bot" ELSE data.comment[1])

\* route /trade/buy
TradeBuy(data) == trade("trade_buy", "BUY", data)

\* route /trade/sell
TradeSell(data) == trade("trade_sell", "SELL", data)

\* the "login" of a JSON body: a number or a string, by its text
JsonNumber(text) == [quoted |-> FALSE, text |-> text]

JsonString(text) == [quoted |-> TRUE, text |-> text]

\* int(login) of the texts sent: Python's int() takes digits with single
\* underscores between them, and raises ValueError for other text
ParseInt(text) ==
  CASE text = "1" -> Some(1)
    [] text = "12" -> Some(12)
    [] text = "1_2" -> Some(12)
    [] OTHER -> None

\* `all([login, ...])` on a JSON value: None, 0 and "" are false
TruthyJson(opt) ==
  /\ opt # None
  /\ opt[1].text # ""
  /\ opt[1].quoted \/ opt[1].text # "0"

\* lines 392-411: the route /connect, data the JSON body
Connect(data) ==
  LET rq == [data |-> data, op |-> "connect"] IN
  IF ~(TruthyJson(data.login) /\ TruthyStr(data.password) /\ TruthyStr(data.server))
  THEN Return(rq,
              [ body   |-> Fail("Missing required fields: login, password, server"),
                status |-> 400 ],
              <<>>, connections, bound)
  ELSE service_login(rq, TRUE, data.login[1], ParseInt(data.login[1].text),
                     data.login[1].text, data.password[1], data.server[1])

\* lines 248-264: the dict of an open position
PositionDict(pos) ==
  [ comment       |-> pos.comment,
    commission    |-> pos.commission,
    magic         |-> pos.magic,
    price_current |-> pos.price_current,
    price_open    |-> pos.price_open,
    profit        |-> pos.profit,
    sl            |-> pos.sl,
    swap          |-> pos.swap,
    symbol        |-> pos.symbol,
    ticket        |-> pos.ticket,
    time          |-> pos.time,
    time_update   |-> pos.time_update,
    tp            |-> pos.tp,
    type          |-> IF pos.type = ORDER_TYPE_BUY THEN "BUY" ELSE "SELL",
    volume        |-> pos.volume ]

\* lines 246-264: positions_list
PositionsList(positions) == [i \in 1..Len(positions) |-> PositionDict(positions[i])]

\* MT5Service.get_open_positions
GetOpenPositions(connection_id, symbol, open_positions) ==
  LET rq == [connection_id |-> connection_id, op |-> "get_open_positions", symbol |-> symbol] IN
  IF ~Registered(connections, connection_id)
  THEN Return(rq, Fail("Not connected"), <<>>, connections, bound)
  ELSE
  LET arg == IF TruthyStr(symbol) THEN [symbol |-> symbol[1]] ELSE None IN
  IF Raises("positions_get") THEN Raise(rq, FALSE, <<>>, "positions_get", arg, bound)
  ELSE
  \E positions \in PositionsAnswers(bound, open_positions) :
    LET c1 == <<Call("positions_get", bound, arg, positions)>> IN
    IF positions = None
    THEN Return(rq, [positions |-> <<>>, success |-> TRUE], c1, connections, bound)
    ELSE Return(rq, [positions |-> PositionsList(positions[1]), success |-> TRUE],
                c1, connections, bound)

\* lines 300-312: the dict of a deal
DealDict(deal) ==
  [ comment    |-> deal.comment,
    commission |-> deal.commission,
    order      |-> deal.order,
    price      |-> deal.price,
    profit     |-> deal.profit,
    swap       |-> deal.swap,
    symbol     |-> deal.symbol,
    ticket     |-> deal.ticket,
    time       |-> deal.time,
    type       |-> IF deal.type = DEAL_TYPE_BUY THEN "BUY" ELSE "SELL",
    volume     |-> deal.volume ]

IsOurDeal_Any(deal) == TRUE

\* line 299: `if deal.magic == 2025`
IsOurDeal(deal) == deal.magic = 2025

\* lines 297-312: deals_list
RECURSIVE DealsList(_)
DealsList(deals) ==
  IF deals = <<>> THEN <<>>
  ELSE IF IsOurDeal(Head(deals))
  THEN <<DealDict(Head(deals))>> \o DealsList(Tail(deals))
  ELSE DealsList(Tail(deals))

\* lines 283-286: the default window, 2020-01-01 to now
DateFrom(date_from) == IF date_from = None THEN "2020-01-01" ELSE date_from[1]

DateTo(date_to) == IF date_to = None THEN IsoFormat(now) ELSE date_to[1]

\* MT5Service.get_closed_positions
GetClosedPositions(connection_id, symbol, date_from, date_to, history) ==
  LET rq == [ connection_id |-> connection_id,
              date_from     |-> date_from,
              date_to       |-> date_to,
              op            |-> "get_closed_positions",
              symbol        |-> symbol ]
  IN
  IF ~Registered(connections, connection_id)
  THEN Return(rq, Fail("Not connected"), <<>>, connections, bound)
  ELSE
  LET window == [date_from |-> DateFrom(date_from), date_to |-> DateTo(date_to)]
      arg == IF TruthyStr(symbol)
             THEN [ date_from |-> window.date_from,
                    date_to   |-> window.date_to,
                    group     |-> "*" \o symbol[1] \o "*" ]
             ELSE window
  IN
  IF Raises("history_deals_get") THEN Raise(rq, FALSE, <<>>, "history_deals_get", arg, bound)
  ELSE
  \E deals \in HistoryDealsAnswers(bound, history) :
    LET c1 == <<Call("history_deals_get", bound, arg, deals)>> IN
    IF deals = None
    THEN Return(rq, [deals |-> <<>>, success |-> TRUE], c1, connections, bound)
    ELSE Return(rq, [deals |-> DealsList(deals[1]), success |-> TRUE],
                c1, connections, bound)

PositionMissing_NoneOnly(position) == position = None

\* line 327: `position is None or len(position) == 0`
PositionMissing(position) == position = None \/ Len(position[1]) = 0

\* lines 338-343: the side that closes the position
CloseType(pos) == IF pos.type = ORDER_TYPE_BUY THEN ORDER_TYPE_SELL ELSE ORDER_TYPE_BUY

ClosePrice_Swapped(pos, tick) == IF pos.type = ORDER_TYPE_BUY THEN tick.ask ELSE tick.bid

\* lines 338-343: the price that closes the position
ClosePrice(pos, tick) == IF pos.type = ORDER_TYPE_BUY THEN tick.bid ELSE tick.ask

\* lines 346-358: request_dict
CloseRequest(pos, ticket, tick) ==
  [ action       |-> TRADE_ACTION_DEAL,
    comment      |-> "SIGNALIST Bot Close",
    deviation    |-> 20,
    magic        |-> pos.magic,
    position     |-> ticket,
    price        |-> ClosePrice(pos, tick),
    symbol       |-> pos.symbol,
    type         |-> CloseType(pos),
    type_filling |-> ORDER_FILLING_IOC,
    type_time    |-> ORDER_TIME_GTC,
    volume       |-> pos.volume ]

\* lines 362-379: the envelope for the terminal's answer to a closing order
CloseOutcome(res) ==
  IF res = None THEN Fail("Close order failed")
  ELSE IF res[1].retcode # TRADE_RETCODE_DONE
  THEN Fail("Close failed: " \o Str(res[1].retcode) \o " - " \o res[1].comment)
  ELSE [ order   |-> [ deal_id  |-> res[1].deal,
  order_id |-> res[1].order,
  price    |-> res[1].price,
  volume   |-> res[1].volume ],
         success |-> TRUE ]

\* MT5Service.close_position
ClosePosition(connection_id, ticket) ==
  LET rq == [connection_id |-> connection_id, op |-> "close_position", ticket |-> ticket] IN
  IF ~Registered(connections, connection_id)
  THEN Return(rq, Fail("Not connected"), <<>>, connections, bound)
  ELSE IF Raises("positions_get")
  THEN Raise(rq, FALSE, <<>>, "positions_get", [ticket |-> ticket], bound)
  ELSE
  \E position \in PositionByTicketAnswers(bound, ticket) :
    LET c1 == <<Call("positions_get", bound, [ticket |-> ticket], position)>> IN
    IF PositionMissing(position)
    THEN Return(rq, Fail("Position not found"), c1, connections, bound)
    \* line 330, position[0]: a TypeError on None, an IndexError on an empty tuple
    ELSE IF position = None
    THEN Return(rq, Except("'NoneType' object is not subscriptable"), c1, connections, bound)
    ELSE IF Len(position[1]) = 0
    THEN Return(rq, Except("tuple index out of range"), c1, connections, bound)
    ELSE
    LET pos == position[1][1] IN
    IF Raises("symbol_info_tick")
    THEN Raise(rq, FALSE, c1, "symbol_info_tick", pos.symbol, bound)
    ELSE
    \E tick \in TickAnswers(bound, pos.symbol) :
      LET c2 == c1 \o <<Call("symbol_info_tick", bound, pos.symbol, tick)>> IN
      IF tick = None
      THEN Return(rq, Fail("Failed to get current price"), c2, connections, bound)
      ELSE
      LET request_dict == CloseRequest(pos, ticket, tick[1]) IN
      IF Raises("order_send") THEN Raise(rq, FALSE, c2, "order_send", request_dict, bound)
      ELSE
      \E res \in OrderSendAnswers(bound, request_dict) :
        Return(rq, CloseOutcome(res),
               c2 \o OrderSend(bound, request_dict, res),
               connections, bound)

-----------------------------------------------------------------------------
(* Concurrent requests: MT5Service.login served by two threads of the web   *)
(* server, one step per terminal call and one for the registry write        *)

\* the threads serving /connect
Threads == {1, 2}

\* a thread with no request
Idle == [account_info |-> None, pc |-> "idle", result |-> None]

\* thread t connects the account of login t
ThreadLogin(t) == t

ThreadServer(t) == "Demo"

\* thread t moves to pc, holding the snapshot ai and the envelope res
Goto(t, pc, ai, res) ==
  /\ threads' = [threads EXCEPT ![t] = [account_info |-> ai, pc |-> pc, result |-> res]]
  /\ UNCHANGED <<now, req, result, calls, raising>>

\* a /connect request reaches thread t
ConnectCall(t) ==
  /\ threads[t].pc = "idle"
  /\ Goto(t, "initialize", None, None)
  /\ UNCHANGED <<connections, bound>>

\* lines 46-50: mt5.initialize(), and mt5.last_error() when it fails
ConnectInitialize(t) ==
  /\ threads[t].pc = "initialize"
  /\ \E init_ok \in BOOLEAN :
       IF init_ok THEN Goto(t, "login", None, None)
       ELSE \E e \in InitErrors :
              Goto(t, "done", None, Some(Fail("MT5 initialization failed: " \o ErrStr(e))))
  /\ UNCHANGED <<connections, bound>>

\* line 52: mt5.login(...): when authorized the terminal is logged in as the
\* thread's account
ConnectLogin(t) ==
  /\ threads[t].pc = "login"
  /\ \E authorized \in BOOLEAN :
       IF authorized
       THEN /\ bound' = Some(Account(ThreadLogin(t), ThreadServer(t)))
            /\ Goto(t, "account_info", None, None)
       ELSE /\ bound' = bound
            /\ Goto(t, "rejected", None, None)
  /\ UNCHANGED connections

\* lines 54-60: mt5.last_error(), mt5.shutdown() and the failure
ConnectRejected(t) ==
  /\ threads[t].pc = "rejected"
  /\ \E e \in LoginErrors : Goto(t, "done", None, Some(Fail("Login failed: " \o ErrStr(e))))
  /\ bound' = None
  /\ UNCHANGED connections

\* lines 63-68: mt5.account_info() answers for the account the terminal is
\* logged in as at this moment
ConnectAccountInfo(t) ==
  /\ threads[t].pc = "account_info"
  /\ \E account_info \in AccountInfoAnswers(bound) :
       IF account_info = None
       THEN Goto(t, "done", None, Some(Fail("Failed to get account info")))
       ELSE Goto(t, "register", account_info, None)
  /\ UNCHANGED <<connections, bound>>

\* lines 70-98: the registry write and the success
ConnectRegister(t) ==
  /\ threads[t].pc = "register"
  /\ LET connection_id == ConnectionId(ThreadLogin(t), ThreadServer(t))
         account_info == threads[t].account_info[1]
     IN /\ connections' =
             Register(connections, connection_id,
                      SessionEntry(ThreadLogin(t), ThreadServer(t), account_info))
        /\ Goto(t, "done", None, Some(LoginSuccess(connection_id, account_info)))
  /\ UNCHANGED bound

\* the terminal's functions start or stop raising
Fault(fns) ==
  /\ raising' = fns
  /\ raising' # raising
  /\ UNCHANGED <<connections, bound, now, req, result, calls, threads>>

\* time passes
Tick ==
  /\ now < MaxTime
  /\ now' = now + 1
  /\ UNCHANGED <<connections, bound, req, result, calls, threads, raising>>

-----------------------------------------------------------------------------
(* Specification *)

\* the session ids clients send: every id login() can make, and one it cannot
ConnectionIds == {ConnectionId(a.login, a.server) : a \in Accounts} \cup {"0_None"}

\* mt5_service = MT5Service(): an empty registry, no terminal connection
Init ==
  /\ connections = <<>>
  /\ bound = None
  /\ now = 0
  /\ req = [op |-> "none"]
  /\ result = [success |-> TRUE]
  /\ calls = <<>>
  /\ threads = [t \in Threads |-> Idle]
  /\ raising = {}

\* Sessions: every operation of the core, for two accounts, the trading and
\* query operations with one request each
Next ==
  \/ \E l \in Logins, p \in Passwords, s \in Servers : Login(l, p, s)
  \/ \E id \in ConnectionIds : Disconnect(id)
  \/ \E id \in ConnectionIds : GetAccountInfo(id)
  \/ \E id \in ConnectionIds :
       PlaceOrder(id, "EURUSD", "BUY", 1, None, None, None, 2025, "SIGNALIST Bot")
  \/ \E id \in ConnectionIds, t \in Tickets : ClosePosition(id, t)
  \/ \E id \in ConnectionIds, ps \in PositionTuples(1) : GetOpenPositions(id, None, ps)
  \/ \E id \in ConnectionIds, ds \in DealTuples(1) : GetClosedPositions(id, None, None, None, ds)

Spec == Init /\ [][Next]_vars

\* Orders: one account, every shape of order request
OrderIds == {ConnectionId(1, "Demo"), "0_None"}

OrderTypes == {"BUY", "SELL", "buy", "HOLD"}

Volumes == {-1, 0, 1}

Prices == {None, Some(105)}

\* stop-loss and take-profit: neither given, or both
Stops == {<<None, None>>, <<Some(95), Some(120)>>}

NextOrder ==
  \/ \E p \in Passwords : Login(1, p, "Demo")
  \/ \E id \in OrderIds : Disconnect(id)
  \/ \E id \in OrderIds, s \in Symbols, ot \in OrderTypes, v \in Volumes, pr \in Prices,
        st \in Stops :
       PlaceOrder(id, s, ot, v, pr, st[1], st[2], 2025, "SIGNALIST Bot")
  \/ \E id \in OrderIds, t \in Tickets : ClosePosition(id, t)

SpecOrder == Init /\ [][NextOrder]_vars

\* Routes: one account, the JSON bodies of /trade/buy and /trade/sell
TradeData ==
  { [ comment       |-> None,
      connection_id |-> Some(id),
      magic         |-> m,
      price         |-> pr,
      sl            |-> None,
      symbol        |-> Some(s),
      tp            |-> None,
      volume        |-> v ] :
    id \in OrderIds, s \in Symbols, v \in {None} \cup {Some(x) : x \in Volumes},
    pr \in {None, Some(0), Some(105)}, m \in {None, Some(7)} }

NextRoute ==
  \/ \E p \in Passwords : Login(1, p, "Demo")
  \/ \E id \in OrderIds : Disconnect(id)
  \/ \E data \in TradeData : TradeBuy(data)
  \/ \E data \in TradeData : TradeSell(data)

SpecRoute == Init /\ [][NextRoute]_vars

\* Queries: one account, every answer of the terminal to a query
QuerySymbols == {None, Some(""), Some("EURUSD")}

\* the window of a history query: the default, or both ends given
Windows == {<<None, None>>, <<Some("2024-01-01"), Some("2024-06-30")>>}

NextQuery ==
  \/ \E p \in Passwords : Login(1, p, "Demo")
  \/ \E id \in OrderIds : Disconnect(id)
  \/ \E id \in OrderIds, s \in QuerySymbols, ps \in PositionTuples(MaxPositions) :
       GetOpenPositions(id, s, ps)
  \/ \E id \in OrderIds, s \in QuerySymbols, w \in Windows, ds \in DealTuples(MaxDeals) :
       GetClosedPositions(id, s, w[1], w[2], ds)
  \/ Tick

SpecQuery == Init /\ [][NextQuery]_vars

\* Concurrent connects: two threads, each serving one /connect request
NextConnect == \E t \in Threads :
  \/ ConnectCall(t)
  \/ ConnectInitialize(t)
  \/ ConnectLogin(t)
  \/ ConnectRejected(t)
  \/ ConnectAccountInfo(t)
  \/ ConnectRegister(t)

SpecConnect == Init /\ [][NextConnect]_vars

\* Exceptions: one account, one request of each operation, any one function
\* of the terminal raising
Faults == {{}} \cup {{fn} : fn \in TerminalFunctions}

NextRaise ==
  \/ \E fns \in Faults : Fault(fns)
  \/ \E p \in Passwords : Login(1, p, "Demo")
  \/ \E id \in OrderIds : Disconnect(id)
  \/ \E id \in OrderIds : GetAccountInfo(id)
  \/ \E id \in OrderIds :
       PlaceOrder(id, "EURUSD", "BUY", 1, None, None, None, 2025, "SIGNALIST Bot")
  \/ \E id \in OrderIds, t \in Tickets : ClosePosition(id, t)
  \/ \E id \in OrderIds, ps \in PositionTuples(1) : GetOpenPositions(id, None, ps)
  \/ \E id \in OrderIds, ds \in DealTuples(1) : GetClosedPositions(id, None, None, None, ds)

SpecRaise == Init /\ [][NextRaise]_vars

\* Registry: every operation of the core for two accounts, as time passes
NextRegistry ==
  \/ Next
  \/ Tick

SpecRegistry == Init /\ [][NextRegistry]_vars

\* Session ids: the JSON bodies of /connect, the login a number or a string
ConnectLogins == {JsonNumber("1"), JsonString("1_2"), JsonString("abc")}

ConnectServers == {"X", "2_X"}

ConnectData ==
  { [login |-> l, password |-> p, server |-> Some(s)] :
    l \in {None} \cup {Some(x) : x \in ConnectLogins}, p \in {Some(x) : x \in Passwords},
    s \in ConnectServers }

\* the ids /connect can make from them
ConnectIds == {SessionId(l.text, s) : l \in ConnectLogins, s \in ConnectServers}

NextIds ==
  \/ \E data \in ConnectData : Connect(data)
  \/ \E id \in ConnectIds : Disconnect(id)

SpecIds == Init /\ [][NextIds]_vars

-----------------------------------------------------------------------------
(* Properties *)

\* the account a registry entry was made for
EntryAccount(id) == Account(connections[id].login, connections[id].server)

\* the operations that take a session id and then use the terminal
SessionOps ==
  {"get_account_info", "place_order", "close_position", "get_open_positions",
   "get_closed_positions"}

\* the last terminal call of the request was an order submission
Submitted == calls # <<>> /\ calls[Len(calls)].fn = "order_send"

\* C1: the registry never holds sessions of two different accounts at once.
C1_OneAccountRegistered ==
  Cardinality({EntryAccount(id) : id \in DOMAIN connections}) <= 1

\* C2: an operation on a session whose account the terminal is not logged in
\* as fails with "Not connected" and makes no terminal call.
C2_StaleSessionNotConnected ==
  ( /\ req.op \in SessionOps
    /\ req.connection_id \in DOMAIN connections
    /\ bound # Some(EntryAccount(req.connection_id)) )
  => (result = Fail("Not connected") /\ calls = <<>>)

\* C3: disconnect of an unregistered id fails with "Connection not found"
\* and changes nothing; disconnect of a registered id succeeds, shuts the
\* terminal down and removes the id and no other; so once a disconnect has
\* succeeded its id is unregistered and a further disconnect of it fails.
C3_DisconnectContract ==
  /\ [](req.op = "disconnect" /\ result.success
          => req.connection_id \notin DOMAIN connections /\ bound = None)
  /\ [][\A id \in ConnectionIds :
          Disconnect(id) =>
            IF id \in DOMAIN connections
            THEN /\ result' = [success |-> TRUE]
                 /\ bound' = None
                 /\ DOMAIN connections' = DOMAIN connections \ {id}
                 /\ \A k \in DOMAIN connections' : connections'[k] = connections[k]
                 /\ Len(calls') = 1 /\ calls'[1].fn = "shutdown"
            ELSE /\ result' = [error |-> "Connection not found", success |-> FALSE]
                 /\ connections' = connections
                 /\ bound' = bound
                 /\ calls' = <<>>]_vars

\* C3 witness: a disconnect succeeded and left the other session registered.
C3_Witness ==
  /\ req.op = "disconnect"
  /\ result.success
  /\ req.connection_id = "1_Demo"
  /\ DOMAIN connections = {"2_Demo"}
  /\ bound = None

\* C4: an order of volume <= 0 sent to /trade/buy or /trade/sell fails and no
\* terminal call is made for it.
C4_NonPositiveVolumeRejected ==
  ( /\ req.op \in {"trade_buy", "trade_sell"}
    /\ req.data.volume # None
    /\ req.data.volume[1] <= 0 )
  => (~result.body.success /\ calls = <<>>)

\* C5: an order with no explicit price that is submitted carries the ask of
\* the tick the terminal answered when the side is BUY, its bid when the side
\* is SELL, and the requested side.
C5_MarketPriceFromTick ==
  (req.op = "place_order" /\ Submitted /\ req.price = None)
  => LET n == Len(calls)
         cmd == calls[n].arg
     IN /\ n >= 2
        /\ calls[n - 1].fn = "symbol_info_tick"
        /\ calls[n - 1].ret # None
        /\ req.order_type \in {"BUY", "buy", "SELL", "sell"}
        /\ req.order_type \in {"BUY", "buy"}
             => cmd.price = calls[n - 1].ret[1].ask /\ cmd.type = ORDER_TYPE_BUY
        /\ req.order_type \in {"SELL", "sell"}
             => cmd.price = calls[n - 1].ret[1].bid /\ cmd.type = ORDER_TYPE_SELL

\* C5 witness: a SELL with no price was submitted at the bid, 100, not the ask.
C5_Witness ==
  /\ req.op = "place_order"
  /\ req.order_type = "SELL"
  /\ req.price = None
  /\ Submitted
  /\ calls[Len(calls)].arg.price = 100
  /\ calls[Len(calls) - 1].ret[1].ask = 102

\* the deals the terminal answered the history query with: none for None
AnsweredDeals == IF calls[1].ret = None THEN <<>> ELSE calls[1].ret[1]

\* C6: whatever deals the terminal answers, get_closed_positions succeeds and
\* returns, in order, exactly the deals whose magic is 2025; none when the
\* terminal answers None or no deal matches.
C6_OnlyTaggedDeals ==
  (req.op = "get_closed_positions" /\ calls # <<>>)
  => LET ours == SelectSeq(AnsweredDeals, LAMBDA d : d.magic = 2025) IN
     /\ calls[1].fn = "history_deals_get"
     /\ result.success
     /\ DOMAIN result = {"success", "deals"}
     /\ Len(result.deals) = Len(ours)
     /\ \A i \in 1..Len(ours) :
          /\ result.deals[i].ticket = ours[i].ticket
          /\ result.deals[i].order = ours[i].order
          /\ result.deals[i].symbol = ours[i].symbol
          /\ result.deals[i].volume = ours[i].volume
          /\ result.deals[i].price = ours[i].price

\* C6 witness: the terminal answered three deals, the middle one with a
\* foreign tag, and the other two were returned.
C6_Witness ==
  /\ req.op = "get_closed_positions"
  /\ calls # <<>>
  /\ calls[1].ret # None
  /\ Len(calls[1].ret[1]) = 3
  /\ calls[1].ret[1][2].magic = 7
  /\ Len(result.deals) = 2
  /\ result.deals[2].ticket = 3

\* C7: close_position for a registered session, the terminal answering None
\* or an empty tuple for the ticket, fails with "Position not found" and
\* submits no order.
C7_ClosePositionNotFound ==
  ( /\ req.op = "close_position"
    /\ calls # <<>>
    /\ calls[1].ret \in {None, Some(<<>>)} )
  => /\ calls[1].fn = "positions_get"
     /\ calls[1].arg = [ticket |-> req.ticket]
     /\ result = [error |-> "Position not found", success |-> FALSE]
     /\ \A i \in 1..Len(calls) : calls[i].fn # "order_send"

\* C7 witness: the terminal, logged in, answered an empty tuple.
C7_Witness ==
  /\ req.op = "close_position"
  /\ calls # <<>>
  /\ calls[1].ret = Some(<<>>)
  /\ bound # None
  /\ result.error = "Position not found"

\* C8: place_order and close_position succeed exactly when an order was
\* submitted and the terminal answered it with result code 10009; the
\* success carries the terminal's order fields; a None answer is "Order send
\* failed" / "Close order failed"; any other code is a failure of only the
\* code and the terminal's comment.
C8_OutcomeOnlyWhenDone ==
  (req.op \in {"place_order", "close_position"})
  => LET res == calls[Len(calls)].ret
         place == req.op = "place_order"
     IN
     /\ result.success <=> (Submitted /\ res # None /\ res[1].retcode = 10009)
     /\ result.success =>
          /\ DOMAIN result = {"success", "order"}
          /\ result.order.order_id = res[1].order
          /\ result.order.deal_id = res[1].deal
          /\ result.order.volume = res[1].volume
          /\ result.order.price = res[1].price
     /\ ~result.success => DOMAIN result = {"success", "error"}
     /\ (Submitted /\ res = None) =>
          result.error = (IF place THEN "Order send failed" ELSE "Close order failed")
     /\ (Submitted /\ res # None /\ res[1].retcode # 10009) =>
          result.error = (IF place THEN "Order failed: " ELSE "Close failed: ")
                         \o Str(res[1].retcode) \o " - " \o res[1].comment

\* C8 witness: the terminal refused an order with code 10006.
C8_Witness ==
  /\ req.op = "place_order"
  /\ Submitted
  /\ calls[Len(calls)].ret # None
  /\ calls[Len(calls)].ret[1].retcode = 10006
  /\ result = [error |-> "Order failed: 10006 - Request rejected", success |-> FALSE]

\* a login that was authorized and got an account snapshot: initialize,
\* login, account_info, the last answering the account's fields
LoginWithSnapshot ==
  /\ req.op = "login"
  /\ Len(calls) = 3
  /\ calls[2].fn = "login" /\ calls[2].ret = TRUE
  /\ calls[3].fn = "account_info" /\ calls[3].ret # None

\* C9: a login that was authorized and got a snapshot returns success, the
\* id "<login>_<server>", and the fields the terminal reported for that
\* account in that call, which are also the fields stored under the id.
C9_SnapshotAsReported ==
  LoginWithSnapshot
  => LET ai == calls[3].ret[1]
         id == Digit[req.login + 1] \o "_" \o req.server
     IN
     /\ calls[3].acct = Some(Account(req.login, req.server))
     /\ result.success
     /\ result.connection_id = id
     /\ DOMAIN result.account =
          {"balance", "equity", "margin", "free_margin", "margin_level", "currency",
           "leverage"}
     /\ result.account.balance = ai.balance
     /\ result.account.equity = ai.equity
     /\ result.account.margin = ai.margin
     /\ result.account.free_margin = ai.margin_free
     /\ result.account.margin_level = ai.margin_level
     /\ result.account.currency = ai.currency
     /\ result.account.leverage = ai.leverage
     /\ id \in DOMAIN connections
     /\ connections[id].account_info = result.account
     /\ connections[id].login = req.login
     /\ connections[id].server = req.server

\* C9 witness: account 2 logged in while account 1 was registered, the
\* terminal reporting a balance of 2500.
C9_Witness ==
  /\ LoginWithSnapshot
  /\ req.login = 2
  /\ result.connection_id = "2_Demo"
  /\ result.account.balance = 2500
  /\ "1_Demo" \in DOMAIN connections

\* C10: after a login that was authorized but got no account snapshot, the
\* session is registered.
C10_RegisteredWithoutSnapshot ==
  (req.op = "login" /\ result = Fail("Failed to get account info"))
  => ConnectionId(req.login, req.server) \in DOMAIN connections

\* how many times the request called the terminal function fn
CallCount(fn) == Cardinality({i \in 1..Len(calls) : calls[i].fn = fn})

\* C12: nothing is retried: a place_order and a close_position request
\* submit at most one order to the terminal and a login request makes at
\* most one login attempt, whatever the terminal answers.
C12_NoRetry ==
  /\ req.op \in {"place_order", "close_position"} => CallCount("order_send") <= 1
  /\ req.op = "login" => CallCount("login") <= 1 /\ CallCount("initialize") <= 1

\* C12 witness: the terminal, logged in, answered an order with None and was
\* asked once.
C12_Witness ==
  /\ req.op = "place_order"
  /\ Submitted
  /\ calls[Len(calls)].ret = None
  /\ bound # None
  /\ CallCount("order_send") = 1

\* C14: every order the service submits carries the tag the history filter
\* of get_closed_positions selects, so the deal the order produces, which
\* carries the order's tag, is among the deals get_closed_positions returns.
C14_OrdersCarryServiceTag ==
  (req.op \in {"trade_buy", "trade_sell", "place_order"} /\ Submitted)
  => IsOurDeal(calls[Len(calls)].arg)

\* C16: place_order with an explicit price does not fetch the tick, cannot
\* fail for a missing tick, and submits exactly the given price.
C16_NoTickWithExplicitPrice ==
  (req.op = "place_order" /\ req.price # None)
  => /\ CallCount("symbol_info_tick") = 0
     /\ result.success \/ result.error # "Failed to get tick for " \o req.symbol
     /\ Submitted => calls[Len(calls)].arg.price = req.price[1]

\* C17: within a place_order request an order is submitted only as the last
\* terminal call, for a registered session, after the symbol resolved and was
\* visible or was made visible, after a tick was fetched, and for a side of
\* BUY or SELL; a request that fails at an earlier stage submits no order, and
\* a request that submits no order fails.
C17_StagesInOrder ==
  (req.op = "place_order")
  => LET n == Len(calls) IN
     /\ \A i \in 1..n :
          calls[i].fn = "order_send" =>
            /\ i = n
            /\ req.connection_id \in DOMAIN connections
            /\ \E j \in 1..(i - 1) :
                 /\ calls[j].fn = "symbol_info"
                 /\ calls[j].ret # None
                 /\ \/ calls[j].ret[1].visible
                    \/ \E k \in (j + 1)..(i - 1) :
                         calls[k].fn = "symbol_select" /\ calls[k].ret = TRUE
            /\ \E j \in 1..(i - 1) :
                 calls[j].fn = "symbol_info_tick" /\ calls[j].ret # None
            /\ req.order_type \in {"BUY", "buy", "SELL", "sell"}
            /\ calls[i].arg.price \in {100, 102, 105}
     /\ ( /\ ~result.success
          /\ result.error \in
               { "Not connected",
                 "Symbol " \o req.symbol \o " not found",
                 "Failed to select symbol " \o req.symbol,
                 "Failed to get tick for " \o req.symbol,
                 "Invalid order type. Use BUY or SELL" } )
        => CallCount("order_send") = 0
     /\ CallCount("order_send") = 0 => ~result.success

\* C17 witness: an order was submitted after the symbol was made visible.
C17_Witness ==
  /\ req.op = "place_order"
  /\ Len(calls) = 4
  /\ calls[1].fn = "symbol_info" /\ ~calls[1].ret[1].visible
  /\ calls[2].fn = "symbol_select" /\ calls[2].ret = TRUE
  /\ calls[3].fn = "symbol_info_tick"
  /\ calls[4].fn = "order_send"
  /\ result.success

\* C18: in place_order, a symbol lookup answering None fails with "Symbol
\* ... not found"; a visible symbol is never selected; a symbol that is not
\* visible is selected exactly once, right after the lookup, and the request
\* fails with "Failed to select symbol ..." exactly when that call answers
\* false, going on to the tick otherwise.
C18_SymbolValidation ==
  (req.op = "place_order" /\ calls # <<>>)
  => /\ calls[1].fn = "symbol_info"
     /\ calls[1].arg = req.symbol
     /\ calls[1].ret = None
          => /\ result = Fail("Symbol " \o req.symbol \o " not found")
             /\ Len(calls) = 1
     /\ (calls[1].ret # None /\ calls[1].ret[1].visible)
          => /\ CallCount("symbol_select") = 0
             /\ Len(calls) >= 2 /\ calls[2].fn = "symbol_info_tick"
     /\ (calls[1].ret # None /\ ~calls[1].ret[1].visible)
          => /\ CallCount("symbol_select") = 1
             /\ Len(calls) >= 2 /\ calls[2].fn = "symbol_select"
             /\ calls[2].arg = req.symbol
             /\ calls[2].ret = FALSE
                  => /\ result = Fail("Failed to select symbol " \o req.symbol)
                     /\ Len(calls) = 2
             /\ calls[2].ret = TRUE
                  => /\ Len(calls) >= 3 /\ calls[3].fn = "symbol_info_tick"
                     /\ result.success
                        \/ result.error # "Failed to select symbol " \o req.symbol

\* C18 witness: the symbol was not visible and could not be selected.
C18_Witness ==
  /\ req.op = "place_order"
  /\ Len(calls) = 2
  /\ calls[1].ret # None
  /\ ~calls[1].ret[1].visible
  /\ calls[2].fn = "symbol_select"
  /\ calls[2].ret = FALSE
  /\ result.error = "Failed to select symbol EURUSD"

\* C19: the order a close_position submits has the side opposite to the
\* position's, the bid of the tick for a BUY position and the ask for a SELL
\* position, the position's symbol, volume and tag, the position's ticket,
\* and the comment "SIGNALIST Bot Close".
C19_CloseCommand ==
  (req.op = "close_position" /\ Submitted)
  => LET n == Len(calls)
         cmd == calls[n].arg
         pos == calls[1].ret[1][1]
         tick == calls[n - 1].ret[1]
     IN
     /\ n = 3
     /\ calls[2].fn = "symbol_info_tick" /\ calls[2].arg = pos.symbol
     /\ pos.type = ORDER_TYPE_BUY => cmd.type = ORDER_TYPE_SELL /\ cmd.price = tick.bid
     /\ pos.type = ORDER_TYPE_SELL => cmd.type = ORDER_TYPE_BUY /\ cmd.price = tick.ask
     /\ cmd.symbol = pos.symbol
     /\ cmd.volume = pos.volume
     /\ cmd.magic = pos.magic
     /\ cmd.position = pos.ticket
     /\ cmd.position = req.ticket
     /\ cmd.comment = "SIGNALIST Bot Close"
     /\ cmd.action = TRADE_ACTION_DEAL

\* C19 witness: a SELL position with a foreign tag was closed by a BUY at the
\* ask, 102.
C19_Witness ==
  /\ req.op = "close_position"
  /\ Submitted
  /\ calls[1].ret[1][1].type = ORDER_TYPE_SELL
  /\ calls[1].ret[1][1].magic = 7
  /\ calls[3].arg.type = ORDER_TYPE_BUY
  /\ calls[3].arg.price = 102
  /\ calls[3].arg.magic = 7
  /\ calls[3].arg.volume = 3
  /\ result.success

\* C15: a login the terminal rejects returns "Login failed: <code>", leaves
\* the registry as it was, and leaves the terminal logged in as the account
\* of every registered session it was logged in as.
C15_RejectedLoginChangesNothing ==
  [][\A l \in Logins, p \in Passwords, s \in Servers :
       ( /\ Login(l, p, s)
         /\ Len(calls') >= 2
         /\ calls'[2].fn = "login"
         /\ calls'[2].ret = FALSE )
       => /\ ~result'.success
          /\ \E e \in LoginErrors : result'.error = "Login failed: " \o ErrStr(e)
          /\ connections' = connections
          /\ \A id \in DOMAIN connections :
               bound = Some(EntryAccount(id)) => bound' = bound]_vars

\* C20: disconnect, get_account_info, place_order, close_position,
\* get_open_positions and get_closed_positions, called with an id that is not
\* registered, fail ("Connection not found" for disconnect, "Not connected"
\* for the others), call the terminal not at all, and leave the registry and
\* the terminal's connection as they were.
C20_UnknownIdFailsFast ==
  [][( /\ req'.op \in SessionOps \cup {"disconnect"}
       /\ req'.connection_id \notin DOMAIN connections )
     => /\ result' = [ error   |-> IF req'.op = "disconnect"
                                   THEN "Connection not found" ELSE "Not connected",
                       success |-> FALSE ]
        /\ calls' = <<>>
        /\ connections' = connections
        /\ bound' = bound]_vars

\* C20 witness: close_position was refused for an unknown id while two
\* sessions were registered and the terminal was logged in.
C20_Witness ==
  /\ req.op = "close_position"
  /\ req.connection_id = "0_None"
  /\ result = [error |-> "Not connected", success |-> FALSE]
  /\ calls = <<>>
  /\ DOMAIN connections = {"1_Demo", "2_Demo"}
  /\ bound # None

\* the snapshots the terminal may report for the account of session id
OwnSnapshots(id) ==
  {AccountDict(a[1]) : a \in AccountInfoAnswers(Some(EntryAccount(id))) \ {None}}

\* C11: once two concurrent logins for different accounts have both
\* returned, every registered session stores a snapshot of its own account,
\* at most one session is registered, and it is the session of the account
\* the terminal is logged in as.
C11_ConcurrentConnectResolved ==
  (\A t \in Threads : threads[t].pc = "done")
  => /\ \A id \in DOMAIN connections : connections[id].account_info \in OwnSnapshots(id)
     /\ Cardinality(DOMAIN connections) <= 1
     /\ \A id \in DOMAIN connections : bound = Some(EntryAccount(id))

\* r is an envelope: success with a payload, or failure with an error message
Envelope(r) ==
  /\ "success" \in DOMAIN r
  /\ IF r.success THEN "error" \notin DOMAIN r ELSE DOMAIN r = {"success", "error"}

\* C13: every operation returns an envelope; when a terminal call raises,
\* it is the last call of the request and the operation returns the failure
\* envelope of the exception's message.
C13_AlwaysAnEnvelope ==
  /\ Envelope(result)
  /\ \A i \in 1..Len(calls) :
       "exc" \in DOMAIN calls[i]
       => /\ i = Len(calls)
          /\ result = [error |-> calls[i].exc, success |-> FALSE]

\* C13 witness: mt5.order_send raised in place_order, after the symbol and
\* the tick were answered.
C13_Witness ==
  /\ req.op = "place_order"
  /\ Len(calls) = 3
  /\ calls[3].fn = "order_send"
  /\ "exc" \in DOMAIN calls[3]
  /\ result = [error |-> "mt5.order_send: no IPC connection", success |-> FALSE]

\* every entry of the registry but that of id is as it was
OthersUnchanged(id) ==
  /\ DOMAIN connections' \ {id} = DOMAIN connections \ {id}
  /\ \A k \in DOMAIN connections \ {id} : connections'[k] = connections[k]

\* C21: the registry changes only in a successful login, which writes the
\* entry of the id it returns and no other, and in a successful disconnect,
\* which removes the entry of its id and no other; get_account_info,
\* place_order, close_position, get_open_positions and get_closed_positions
\* leave every entry as it was, connected_at and the stored snapshot
\* included, and so does the passing of time.
C21_RegistryFrame ==
  [][ /\ connections' # connections
        => \/ /\ req'.op = "login"
              /\ result'.success
              /\ result'.connection_id \in DOMAIN connections'
              /\ connections'[result'.connection_id].account_info = result'.account
              /\ connections'[result'.connection_id].connected_at = IsoFormat(now)
              /\ OthersUnchanged(result'.connection_id)
           \/ /\ req'.op = "disconnect"
              /\ result'.success
              /\ req'.connection_id \in DOMAIN connections
              /\ req'.connection_id \notin DOMAIN connections'
              /\ OthersUnchanged(req'.connection_id)
      /\ req'.op \in SessionOps => connections' = connections
      /\ now' # now => connections' = connections ]_vars

\* C21 witness: get_account_info answered a balance of 1500 at time 1 for a
\* session connected at time 0 with a balance of 1000, and the entry still
\* holds the snapshot and the time of the login, the other session too.
C21_Witness ==
  /\ req.op = "get_account_info"
  /\ req.connection_id = "1_Demo"
  /\ result.success
  /\ result.account.balance = 1500
  /\ now = 1
  /\ DOMAIN connections = {"1_Demo", "2_Demo"}
  /\ connections["1_Demo"].account_info.balance = 1000
  /\ connections["1_Demo"].connected_at = "T0"
  /\ connections["2_Demo"].connected_at = "T0"

\* the account and server the entry e of the registry was made for by /connect
ConnectedPair(e) == <<ParseInt(e.login.text), e.server>>

\* C22: a successful /connect leaves exactly one entry for its account and
\* server, under the id it returns, and a /connect never overwrites the
\* entry of another account or server: an entry that changes is still the
\* entry of the same account on the same server.
C22_SessionIdInjective ==
  [][ /\ (req'.op = "connect" /\ result'.body.success)
        => LET id == result'.body.connection_id IN
           /\ id \in DOMAIN connections'
           /\ ConnectedPair(connections'[id])
                = <<ParseInt(req'.data.login[1].text), req'.data.server[1]>>
           /\ Cardinality({k \in DOMAIN connections' :
                             ConnectedPair(connections'[k])
                               = ConnectedPair(connections'[id])}) = 1
      /\ \A id \in DOMAIN connections \cap DOMAIN connections' :
           ConnectedPair(connections'[id]) = ConnectedPair(connections[id]) ]_vars

====
